---- MODULE Spec2Model ----
(***************************************************************************)
(* TerraGen.py: main() and compute_subnet_cidrs().                         *)
(*                                                                         *)
(* A CIDR string "a.b.c.d/p" is modelled by its decimal fields, the tuple  *)
(* <<a, b, c, d, p>>.  The integer value of an IPv4 address (0 .. 2^32-1)  *)
(* does not fit TLC's integers, so an address value is kept as two 16-bit  *)
(* limbs <<hi, lo>> standing for hi * 2^16 + lo; parsing packs the fields  *)
(* of the string into the limbs and str() unpacks them again.              *)
(***************************************************************************)
EXTENDS Integers, Sequences, FiniteSets, TLC

\* ---- bounds of the explored inputs ----
MaxZones == 9
MaxNegZones == 2

\* ---- constants of the program ----
max_prefixlen == 32
MinSubnetPrefix == 28

\* ---- limb arithmetic on address values ----
Limb == 2^16

WNorm(hi, lo) == <<hi + (lo \div Limb), lo % Limb>>

WAdd(x, y) == WNorm(x[1] + y[1], x[2] + y[2])

WMul(x, k) == WNorm(x[1] * k, x[2] * k)

\* 2^b for b in 0..32
WPow2(b) == IF b >= 16 THEN <<2^(b - 16), 0>> ELSE <<0, 2^b>>

\* x >> d
WShr(x, d) ==
    IF d >= 16
    THEN <<0, x[1] \div (2^(d - 16))>>
    ELSE <<x[1] \div (2^d), ((x[1] % (2^d)) * (2^(16 - d))) + (x[2] \div (2^d))>>

\* x & netmask(p): the low 32 - p bits cleared
WAndNetmask(x, p) ==
    LET h == max_prefixlen - p IN
    IF h >= 16
    THEN <<(x[1] \div (2^(h - 16))) * (2^(h - 16)), 0>>
    ELSE <<x[1], (x[2] \div (2^h)) * (2^h)>>

\* ---- int.bit_length() ----
RECURSIVE bit_length(_)
bit_length(n) ==
    LET a == IF n < 0 THEN -n ELSE n IN
    IF a = 0 THEN 0 ELSE 1 + bit_length(a \div 2)

\* ---- ipaddress: parsing, formatting, subnets ----
Pack(s) == <<(s[1] * 256) + s[2], (s[3] * 256) + s[4]>>

Wellformed(s) == (\A k \in 1..4 : s[k] \in 0..255) /\ s[5] \in 0..max_prefixlen

\* ipaddress.ip_network(vpc_cidr), strict: ValueError on a malformed string
\* and on host bits set
ip_network(s) ==
    IF ~Wellformed(s)
    THEN [exc |-> "ValueError", net |-> [network_address |-> <<0, 0>>, prefixlen |-> 0]]
    ELSE IF WAndNetmask(Pack(s), s[5]) # Pack(s)
    THEN [exc |-> "ValueError", net |-> [network_address |-> <<0, 0>>, prefixlen |-> 0]]
    ELSE [exc |-> "none", net |-> [network_address |-> Pack(s), prefixlen |-> s[5]]]

\* str(network)
str(n) ==
    <<n.network_address[1] \div 256, n.network_address[1] % 256,
      n.network_address[2] \div 256, n.network_address[2] % 256,
      n.prefixlen>>

NoSubnets == [len |-> 0, start |-> <<0, 0>>, step |-> <<0, 0>>, prefixlen |-> 0]

\* list(net.subnets(new_prefix=q)): the list range(start, end, step) of
\* networks, kept as its length, first address, step and prefix length
net_subnets(n, q) ==
    IF n.prefixlen = max_prefixlen
    THEN [exc |-> "none",
          list |-> [len |-> 1, start |-> n.network_address, step |-> <<0, 0>>,
                    prefixlen |-> n.prefixlen]]
    ELSE IF q < n.prefixlen
    THEN [exc |-> "ValueError", list |-> NoSubnets]
    ELSE IF q > max_prefixlen
    THEN [exc |-> "ValueError", list |-> NoSubnets]
    ELSE [exc |-> "none",
          list |-> [len |-> 2^(q - n.prefixlen),
                    start |-> n.network_address,
                    step |-> WShr(WPow2(max_prefixlen - n.prefixlen), q - n.prefixlen),
                    prefixlen |-> q]]

SubnetAtNext(l, k) ==
    [network_address |-> WAdd(l.start, WMul(l.step, k + 1)), prefixlen |-> l.prefixlen]

\* subnets[k]
SubnetAt(l, k) ==
    [network_address |-> WAdd(l.start, WMul(l.step, k)), prefixlen |-> l.prefixlen]

\* ---- compute_subnet_cidrs ----
TotalSubnets(az) == az * 2

ExtraBitsNoDecrement(total) == bit_length(total)

ExtraBits(total) == bit_length(total - 1)

ClampOff(np) == np

ClampPrefix(np) == IF np > MinSubnetPrefix THEN MinSubnetPrefix ELSE np

PublicIndexSeq(j) == j

PublicIndex(j) == j * 2

PrivateIndexDup(j) == j * 2

PrivateIndex(j) == (j * 2) + 1

RangeDoneShort(j, n) == j >= n - 1

\* for i in range(az_count) is exhausted
RangeDone(j, n) == j >= n

\* ---- main ----
Templates == {"main.tf", "variables.tf", "outputs.tf", "README.md", "backend.tf"}

HandlerFallsThrough == "render"

\* where main continues after the except clause
AfterHandler == "exited"

Handled(e) == e \in {"ValueError", "KeyError"}

\* ---- inputs ----
Addresses ==
    { <<0, 0, 0, 0>>, <<10, 0, 0, 0>>, <<10, 0, 0, 16>>, <<192, 168, 1, 0>>,
      <<172, 16, 0, 1>>, <<255, 255, 255, 240>>, <<255, 255, 255, 255>>,
      <<10, 0, 0, 256>> }

CidrInputs == { a \o <<p>> : a \in Addresses, p \in 0..(max_prefixlen + 1) }

ZoneInputs == (0 - MaxNegZones)..MaxZones

NoCidr == <<0, 0, 0, 0, 0>>

VARIABLES pc, answers, net, total_subnets, new_prefix, subnets,
          public_cidrs, private_cidrs, i, exc, outdir_exists, files, exit_status

vars == <<pc, answers, net, total_subnets, new_prefix, subnets,
          public_cidrs, private_cidrs, i, exc, outdir_exists, files, exit_status>>

locals == <<net, total_subnets, new_prefix, subnets, public_cidrs, private_cidrs, i>>

world == <<outdir_exists, files, exit_status>>

Init ==
    /\ pc = "start"
    /\ answers = [has_vpc_cidr |-> FALSE, vpc_cidr |-> NoCidr,
                  has_az_count |-> FALSE, az_count |-> 0,
                  has_subnets |-> FALSE,
                  public_subnets |-> <<>>, private_subnets |-> <<>>]
    /\ net = [network_address |-> <<0, 0>>, prefixlen |-> 0]
    /\ total_subnets = 0
    /\ new_prefix = 0
    /\ subnets = NoSubnets
    /\ public_cidrs = <<>>
    /\ private_cidrs = <<>>
    /\ i = 0
    /\ exc = "none"
    /\ outdir_exists = FALSE
    /\ files = {}
    /\ exit_status = -1

\* main: the answers come from the answers file or from the prompts
LoadAnswers ==
    /\ pc = "start"
    /\ \E hv \in BOOLEAN, ha \in BOOLEAN, s \in CidrInputs, z \in ZoneInputs :
          /\ hv \/ s = NoCidr
          /\ ha \/ z = 0
          /\ answers' = [answers EXCEPT !.has_vpc_cidr = hv, !.vpc_cidr = s,
                                        !.has_az_count = ha, !.az_count = z]
    /\ pc' = "try"
    /\ UNCHANGED <<locals, exc, world>>

\* main: the arguments answers["vpc_cidr"], answers["az_count"] of the call
CallCompute ==
    /\ pc = "try"
    /\ IF answers.has_vpc_cidr /\ answers.has_az_count
       THEN pc' = "ip_network" /\ exc' = exc
       ELSE pc' = "raised" /\ exc' = "KeyError"
    /\ UNCHANGED <<answers, locals, world>>

ParseNetwork ==
    /\ pc = "ip_network"
    /\ LET r == ip_network(answers.vpc_cidr) IN
          /\ exc' = r.exc
          /\ net' = r.net
          /\ pc' = IF r.exc = "none" THEN "prefix" ELSE "raised"
    /\ UNCHANGED <<answers, total_subnets, new_prefix, subnets, public_cidrs,
                   private_cidrs, i, world>>

ComputePrefix ==
    /\ pc = "prefix"
    /\ total_subnets' = TotalSubnets(answers.az_count)
    /\ new_prefix' = net.prefixlen + ExtraBits(TotalSubnets(answers.az_count))
    /\ pc' = "clamp"
    /\ UNCHANGED <<answers, net, subnets, public_cidrs, private_cidrs, i, exc, world>>

Clamp ==
    /\ pc = "clamp"
    /\ new_prefix' = ClampPrefix(new_prefix)
    /\ pc' = "fit"
    /\ UNCHANGED <<answers, net, total_subnets, subnets, public_cidrs,
                   private_cidrs, i, exc, world>>

FitCheck ==
    /\ pc = "fit"
    /\ IF new_prefix > max_prefixlen
       THEN pc' = "raised" /\ exc' = "ValueError"
       ELSE pc' = "subnets" /\ exc' = exc
    /\ UNCHANGED <<answers, locals, world>>

Enumerate ==
    /\ pc = "subnets"
    /\ LET r == net_subnets(net, new_prefix) IN
          /\ exc' = r.exc
          /\ subnets' = r.list
          /\ pc' = IF r.exc = "none" THEN "loop" ELSE "raised"
    /\ UNCHANGED <<answers, net, total_subnets, new_prefix, public_cidrs,
                   private_cidrs, i, world>>

\* one iteration of the loop; subnets[k] raises IndexError past the end
AssignZone ==
    /\ pc = "loop"
    /\ ~RangeDone(i, answers.az_count)
    /\ IF PublicIndex(i) >= subnets.len
       THEN /\ pc' = "raised" /\ exc' = "IndexError"
            /\ UNCHANGED <<public_cidrs, private_cidrs, i>>
       ELSE IF PrivateIndex(i) >= subnets.len
       THEN /\ pc' = "raised" /\ exc' = "IndexError"
            /\ public_cidrs' = Append(public_cidrs, str(SubnetAt(subnets, PublicIndex(i))))
            /\ UNCHANGED <<private_cidrs, i>>
       ELSE /\ pc' = "loop" /\ exc' = exc
            /\ public_cidrs' = Append(public_cidrs, str(SubnetAt(subnets, PublicIndex(i))))
            /\ private_cidrs' = Append(private_cidrs, str(SubnetAt(subnets, PrivateIndex(i))))
            /\ i' = i + 1
    /\ UNCHANGED <<answers, net, total_subnets, new_prefix, subnets, world>>

\* return public_cidrs, private_cidrs; main stores them in answers
Return ==
    /\ pc = "loop"
    /\ RangeDone(i, answers.az_count)
    /\ answers' = [answers EXCEPT !.has_subnets = TRUE,
                                  !.public_subnets = public_cidrs,
                                  !.private_subnets = private_cidrs]
    /\ pc' = "render"
    /\ UNCHANGED <<locals, exc, world>>

\* except (ValueError, KeyError): print the message and return
HandleError ==
    /\ pc = "raised"
    /\ Handled(exc)
    /\ pc' = AfterHandler
    /\ exit_status' = IF AfterHandler = "exited" THEN 0 ELSE exit_status
    /\ UNCHANGED <<answers, locals, exc, outdir_exists, files>>

\* any other exception leaves main and ends the interpreter with a traceback
Uncaught ==
    /\ pc = "raised"
    /\ ~Handled(exc)
    /\ pc' = "exited"
    /\ exit_status' = 1
    /\ UNCHANGED <<answers, locals, exc, outdir_exists, files>>

\* render_templates: mkdir, then each template is written or skipped with
\* a warning
RenderTemplates ==
    /\ pc = "render"
    /\ outdir_exists' = TRUE
    /\ \E written \in SUBSET Templates : files' = written
    /\ pc' = "next_steps"
    /\ UNCHANGED <<answers, locals, exc, exit_status>>

NextSteps ==
    /\ pc = "next_steps"
    /\ pc' = "exited"
    /\ exit_status' = 0
    /\ UNCHANGED <<answers, locals, exc, outdir_exists, files>>

Next ==
    \/ LoadAnswers
    \/ CallCompute
    \/ ParseNetwork
    \/ ComputePrefix
    \/ Clamp
    \/ FitCheck
    \/ Enumerate
    \/ AssignZone
    \/ Return
    \/ HandleError
    \/ Uncaught
    \/ RenderTemplates
    \/ NextSteps

Spec == Init /\ [][Next]_vars

\* ---- vocabulary of the properties ----
Given == answers.has_vpc_cidr /\ answers.has_az_count

ValidBase == Given /\ ip_network(answers.vpc_cidr).exc = "none"

BasePrefix == answers.vpc_cidr[5]

Zones == answers.az_count

Exited == pc = "exited"

PlanReturned == answers.has_subnets

Blocks == answers.public_subnets \o answers.private_subnets

\* order of address values
WLess(x, y) == x[1] < y[1] \/ (x[1] = y[1] /\ x[2] < y[2])

WLeq(x, y) == x = y \/ WLess(x, y)

RangeStart(s) == Pack(s)

RangeEnd(s) == WAdd(Pack(s), WPow2(32 - s[5]))

Disjoint(s, t) == WLeq(RangeEnd(s), RangeStart(t)) \/ WLeq(RangeEnd(t), RangeStart(s))

Inside(s, b) == WLeq(RangeStart(b), RangeStart(s)) /\ WLeq(RangeEnd(s), RangeEnd(b))

CeilLog2(n) == CHOOSE e \in 0..32 : 2^e >= n /\ \A f \in 0..(e - 1) : 2^f < n

ExpectedPrefix ==
    IF BasePrefix + CeilLog2(2 * Zones) > 28 THEN 28 ELSE BasePrefix + CeilLog2(2 * Zones)

\* s is the k-th block (from 0) of the base at the expected prefix length,
\* counting by ascending address
IsBlockAt(s, k) ==
    /\ Len(s) = 5
    /\ \A j \in 1..4 : s[j] \in 0..255
    /\ s[5] = ExpectedPrefix
    /\ Pack(s) = WAdd(Pack(answers.vpc_cidr), WMul(WPow2(32 - ExpectedPrefix), k))

\* C1: when compute_subnet_cidrs succeeds on a valid base and zoneCount >= 1,
\* any two distinct returned blocks, public and private together, have no
\* address in common.
C1_PairwiseDisjoint ==
    (PlanReturned /\ ValidBase /\ Zones >= 1) =>
        \A a \in 1..Len(Blocks) : \A b \in 1..Len(Blocks) :
            a # b => Disjoint(Blocks[a], Blocks[b])

C1_Witness ==
    /\ Exited /\ PlanReturned /\ ValidBase /\ Zones >= 2
    /\ Len(Blocks) = 2 * Zones
    /\ BasePrefix > 0

\* C2: when compute_subnet_cidrs succeeds on a valid base and zoneCount >= 1,
\* every returned block lies entirely inside the address range of the base.
C2_InsideBase ==
    (PlanReturned /\ ValidBase /\ Zones >= 1) =>
        \A a \in 1..Len(Blocks) : Inside(Blocks[a], answers.vpc_cidr)

C2_Witness ==
    /\ Exited /\ PlanReturned /\ ValidBase /\ Zones >= 1
    /\ subnets.len = 2 * Zones
    /\ answers.vpc_cidr[1] # 0

C4_PairedAssignment ==
    /\ (PlanReturned /\ ValidBase /\ Zones >= 1) =>
          /\ Len(answers.public_subnets) = Zones
          /\ Len(answers.private_subnets) = Zones
          /\ \A z \in 0..(Zones - 1) :
                /\ IsBlockAt(answers.public_subnets[z + 1], 2 * z)
                /\ IsBlockAt(answers.private_subnets[z + 1], (2 * z) + 1)
    /\ (Exited /\ Given /\ answers.vpc_cidr = <<10, 0, 0, 0, 16>> /\ Zones = 2) =>
          /\ PlanReturned
          /\ answers.public_subnets = << <<10, 0, 0, 0, 18>>, <<10, 0, 128, 0, 18>> >>
          /\ answers.private_subnets = << <<10, 0, 64, 0, 18>>, <<10, 0, 192, 0, 18>> >>

C4_Witness ==
    /\ Exited /\ PlanReturned /\ Given
    /\ answers.vpc_cidr = <<10, 0, 0, 0, 16>>
    /\ Zones = 2

\* C5: with zoneCount <= 0 the computation fails with InvalidZoneCount and
\* returns no plan, not even a pair of empty lists.
C5_NonPositiveZonesRejected ==
    (Exited /\ ValidBase /\ Zones <= 0) => (exc # "none" /\ ~PlanReturned)

\* C6: when the enumeration yields fewer blocks than 2*zoneCount the
\* computation fails with BlockTooSmall, the failure the fit check raises
\* and the caller handles (ValueError), and returns no plan.
C6_ShortEnumerationIsBlockTooSmall ==
    (Exited /\ ValidBase /\ Zones >= 1 /\ subnets.len > 0 /\ subnets.len < 2 * Zones) =>
        (exc = "ValueError" /\ ~PlanReturned)

\* C7: for a valid base of prefix length p and zoneCount >= 1 the
\* computation succeeds exactly when 2*zoneCount <= 2^(28 - p), never when
\* p > 28; whenever the clamp to /28 changes newPrefix the call fails.
C7_AcceptsAsUpfrontCheck ==
    (Exited /\ ValidBase /\ Zones >= 1) =>
        /\ PlanReturned <=> (BasePrefix <= 28 /\ 2 * Zones <= 2^(28 - BasePrefix))
        /\ (BasePrefix + CeilLog2(2 * Zones) > 28) => ~PlanReturned

C7_Witness ==
    /\ Exited /\ ValidBase /\ Zones >= 1
    /\ BasePrefix < 28
    /\ BasePrefix + CeilLog2(2 * Zones) > 28
    /\ ~PlanReturned

\* C8: in a run where the subnet computation produces no plan (any failure,
\* or a missing vpc_cidr or az_count) render_templates is never invoked: the
\* output directory is not created and no file is written.
C8_NoRenderWithoutPlan ==
    (exc # "none" \/ ~PlanReturned) =>
        /\ pc \notin {"render", "next_steps"}
        /\ ~outdir_exists
        /\ files = {}

C8_Witness ==
    /\ Exited /\ exc # "none" /\ ~PlanReturned
    /\ ~outdir_exists /\ files = {}

\* C9: every run of main in which the subnet computation fails ends with a
\* non-zero exit status.
C9_FailureExitsNonZero ==
    (Exited /\ Given /\ exc # "none") => exit_status # 0

\* C10: for zoneCount >= 1 the extra prefix bits (2*zoneCount - 1).bit_length()
\* are the smallest e >= 0 with 2^e >= 2*zoneCount, so newPrefix before the
\* clamp is base.prefixLength + ceil(log2(2*zoneCount)).
C10_ExtraBitsIsCeilLog2 ==
    (pc = "clamp" /\ Zones >= 1) =>
        LET e == new_prefix - net.prefixlen IN
        /\ e >= 0
        /\ 2^e >= 2 * Zones
        /\ \A f \in 0..(e - 1) : 2^f < 2 * Zones
        /\ new_prefix = BasePrefix + CeilLog2(2 * Zones)

C10_Witness ==
    /\ pc = "clamp" /\ Zones >= 2
    /\ 2^(new_prefix - net.prefixlen) = 2 * Zones

====
